---- MODULE Spec2Model ----
(***************************************************************************)
(* Model of xk6-disruptor's pod disruptor facade (pkg/disruptors/pod.go)   *)
(* and of the cluster client bootstrap (pkg/kubernetes, newWithContext and *)
(* checkK8sVersion).                                                       *)
(*                                                                         *)
(* The agent controller and the fault command builders are called by the   *)
(* facade but their bodies are not part of the sources at hand; they are   *)
(* modelled from the design document (sections 4.2 - 4.4).                 *)
(***************************************************************************)
EXTENDS Integers, Sequences, FiniteSets, TLC

\* ------------------------------------------------------------------ bounds
MaxMajor == 11       \* largest server major version explored
MaxMinor == 120      \* largest server minor version explored

\* --------------------------------------------------------------- constants
NamespaceDefault == "default"     \* metav1.NamespaceDefault
QPS == 100
Burst == 150

\* ------------------------------------------------------------------ inputs
\* The pods that exist in the cluster.
Pods == {"checkout-0", "checkout-1"}

Range(s) == {s[i] : i \in DOMAIN s}

\* A Go map[string]string: nil, or a (possibly empty) set of key/value pairs.
NilMap == [isNil |-> TRUE, entries |-> {}]
EmptyMap == [isNil |-> FALSE, entries |-> {}]
LabelMaps ==
    {NilMap, EmptyMap, [isNil |-> FALSE, entries |-> {<<"app", "checkout">>}]}

\* PodAttributes{Labels}
PodAttributes == [Labels : LabelMaps]

\* The zero value PodAttributes{}
ZeroPodAttributes == [Labels |-> NilMap]

\* PodSelector{Namespace, Select, Exclude}
PodSelector ==
    [Namespace : {"", "ns1"}, Select : PodAttributes, Exclude : PodAttributes]

\* PodDisruptorOptions{InjectTimeout}
PodDisruptorOptions == [InjectTimeout : {-1, 0, 5}]

\* Fault specifications handed to InjectHTTPFaults / InjectGrpcFaults:
\* a duration in seconds and an error rate in hundredths (ErrorRate 0.1 is 10).
FaultSpecs ==
    {[duration |-> 30, errorRate |-> 10],
     [duration |-> 30, errorRate |-> 0],
     [duration |-> 30, errorRate |-> 100],
     [duration |-> 0, errorRate |-> 10],
     [duration |-> -1, errorRate |-> 10],
     [duration |-> 30, errorRate |-> -1],
     [duration |-> 30, errorRate |-> 101]}

\* ------------------------------------------------------------------ errors
NoErr == [kind |-> "nil", targets |-> {}]
Err(kind, targets) == [kind |-> kind, targets |-> targets]

\* What helper.List may yield: an error, or the names of distinct pods in
\* whatever order the collaborator chooses.
ListOutcomes ==
    {[pods |-> <<>>, err |-> Err("ListFailed", {})]} \cup
    {[pods |-> s, err |-> NoErr] :
        s \in {q \in UNION {[1..n -> Pods] : n \in 0..Cardinality(Pods)} :
                  \A i, j \in DOMAIN q : i # j => q[i] # q[j]}}

\* --------------------------------------------------------- reflect.DeepEqual
\* reflect.DeepEqual on two PodAttributes: the Labels maps are deeply equal
\* iff both are nil or both are non-nil with the same entries.
DeepEqual(a, b) ==
    /\ a.Labels.isNil = b.Labels.isNil
    /\ a.Labels.entries = b.Labels.entries

\* ------------------------------------------------------- facade, pod.go
VARIABLES
    pc,            \* facade state: "Uninitialized", "Ready" or "Failed"
    argSelector,   \* the PodSelector the caller passed to NewPodDisruptor
    argOptions,    \* the PodDisruptorOptions the caller passed
    selector,      \* NewPodDisruptor's own copy of the selector when it returns
    helperCalls,   \* namespaces given to k8s.PodHelper, in call order
    listCalls,     \* filters given to helper.List, in call order
    listRet,       \* what helper.List returned
    controller,    \* the AgentController the facade built
    injectCalls,   \* number of InjectDisruptorAgent invocations
    injectRet,     \* what InjectDisruptorAgent returned
    cluster,       \* cluster side: pods whose mutation was accepted, agents running
    newRet,        \* what NewPodDisruptor returned: instance or nil, and the error
    lastCall,      \* the last call of a method of the constructed disruptor
    boot           \* the last call of newWithContext: server version and result

NoSelector == [Namespace |-> "", Select |-> ZeroPodAttributes, Exclude |-> ZeroPodAttributes]
NoOptions == [InjectTimeout |-> 0]
NoFilter == [Select |-> NilMap, Exclude |-> NilMap]
NoListRet == [pods |-> <<>>, err |-> NoErr]
NoController ==
    [created |-> FALSE, helperNs |-> "", namespace |-> "", targets |-> <<>>,
     timeout |-> 0, injState |-> <<>>]
NoCluster == [accepted |-> {}, running |-> {}]
NoRet == [instance |-> FALSE, err |-> NoErr]
NoCmd == [protocol |-> "", duration |-> 0, errorRate |-> 0]
NoCall ==
    [op |-> "none", duration |-> 0, errorRate |-> 0, cmd |-> NoCmd,
     execCmds |-> <<>>, execOn |-> {}, execFailed |-> {},
     targets |-> <<>>, err |-> NoErr]

\* emptySelect := reflect.DeepEqual(selector.Select, PodAttributes{})
emptySelect(sel) == DeepEqual(sel.Select, ZeroPodAttributes)

\* emptyExclude := reflect.DeepEqual(selector.Exclude, PodAttributes{})
emptyExclude(sel) == DeepEqual(sel.Exclude, ZeroPodAttributes)

\* if selector.Namespace == "" && emptySelect && emptyExclude { return nil, err }
SelectorRejected(sel) ==
    sel.Namespace = "" /\ emptySelect(sel) /\ emptyExclude(sel)

\* namespace := selector.Namespace, read before the selector is defaulted
LocalNamespace(sel) == sel.Namespace

\* if selector.Namespace == "" { selector.Namespace = metav1.NamespaceDefault }
DefaultedSelector(sel) ==
    IF sel.Namespace = "" THEN [sel EXCEPT !.Namespace = NamespaceDefault] ELSE sel

\* Faulty variant: Select and Exclude exchanged when the filter is built.
PodFilterSwapped(sel) == [Select |-> sel.Exclude.Labels, Exclude |-> sel.Select.Labels]

\* filter := helpers.PodFilter{Select: selector.Select.Labels, Exclude: ...}
PodFilter(sel) == [Select |-> sel.Select.Labels, Exclude |-> sel.Exclude.Labels]

\* targets, as handed to NewAgentController: the list helper.List returned
ControllerTargets(pods) == pods

\* Faulty variant: the caller's timeout is dropped and the default forced.
ControllerTimeoutDefault(opts) == 0

\* options.InjectTimeout, as handed to NewAgentController
ControllerTimeout(opts) == opts.InjectTimeout

\* Faulty variant: the error of InjectDisruptorAgent is not looked at.
NewPodDisruptorRetIgnoresInject(rejected, listErr, injErr) ==
    IF rejected THEN [instance |-> FALSE, err |-> Err("InvalidSelector", {})]
    ELSE IF listErr # NoErr THEN [instance |-> FALSE, err |-> listErr]
    ELSE [instance |-> TRUE, err |-> NoErr]

\* The (instance, error) pair NewPodDisruptor returns, from the outcome of
\* its three stages: each failing stage returns nil and that stage's error.
NewPodDisruptorRet(rejected, listErr, injErr) ==
    IF rejected THEN [instance |-> FALSE, err |-> Err("InvalidSelector", {})]
    ELSE IF listErr # NoErr THEN [instance |-> FALSE, err |-> listErr]
    ELSE IF injErr # NoErr THEN [instance |-> FALSE, err |-> injErr]
    ELSE [instance |-> TRUE, err |-> NoErr]

\* ------------------------------------- agent controller (design 4.2, 4.4)
\* NewAgentController(ctx, helper, namespace, targets, timeout): the helper is
\* identified by the namespace it was obtained for; every target is Pending.
NewAgentController(helperNs, namespace, targets, timeout) ==
    [created |-> TRUE, helperNs |-> helperNs, namespace |-> namespace,
     targets |-> targets, timeout |-> timeout,
     injState |-> [i \in DOMAIN targets |-> "Pending"]]

\* Injection state of one target once InjectDisruptorAgent is through with it:
\* a rejected mutation fails; a negative timeout does not wait for the agent;
\* otherwise the agent has to be seen running within the wait.
InjectedState(timeout, pod, accepted, running) ==
    IF pod \notin accepted THEN "InjectionFailed"
    ELSE IF timeout < 0 THEN "Injected"
    ELSE IF pod \in running THEN "Injected"
    ELSE "InjectionFailed"

\* InjectDisruptorAgent(): attempts every target; any failed target makes the
\* call return an error naming the failed targets.
InjectDisruptorAgent(ctrl, accepted, running) ==
    LET st == [i \in DOMAIN ctrl.targets |->
                  InjectedState(ctrl.timeout, ctrl.targets[i], accepted, running)]
        failed == {ctrl.targets[i] : i \in {j \in DOMAIN st : st[j] = "InjectionFailed"}}
    IN  [ctrl |-> [ctrl EXCEPT !.injState = st],
         err |-> IF failed = {} THEN NoErr ELSE Err("InjectionFailed", failed)]

\* The targets the controller holds as Injected, in the controller's order.
InjectedTargets(ctrl) ==
    LET idx == {i \in DOMAIN ctrl.targets : ctrl.injState[i] = "Injected"}
        F[i \in 0..Len(ctrl.targets)] ==
            IF i = 0 THEN <<>>
            ELSE IF i \in idx THEN Append(F[i - 1], ctrl.targets[i]) ELSE F[i - 1]
    IN  F[Len(ctrl.targets)]

\* AgentController.Targets(): the tracked target identifiers.
AgentControllerTargets(ctrl) == [targets |-> InjectedTargets(ctrl), err |-> NoErr]

\* AgentController.ExecCommand(cmd): runs cmd in the agent of every Injected
\* target; failing is the set of pods whose exec fails. The error names the
\* targets that failed; nothing is rolled back.
ExecCommand(ctrl, cmd, failing) ==
    LET on == Range(InjectedTargets(ctrl))
        failed == on \cap failing
    IN  [execOn |-> on, execFailed |-> failed,
         err |-> IF failed = {} THEN NoErr ELSE Err("ExecFailed", failed)]

\* ----------------------------------------- fault command builder (4.3)
\* buildHTTPFaultCmd: the agent command line for an HTTP fault. The facade
\* binds its single result, the command; no error comes back from it.
buildHTTPFaultCmd(duration, errorRate) ==
    [protocol |-> "http", duration |-> duration, errorRate |-> errorRate]

\* buildGrpcFaultCmd: the agent command line for a gRPC fault.
buildGrpcFaultCmd(duration, errorRate) ==
    [protocol |-> "grpc", duration |-> duration, errorRate |-> errorRate]

\* ------------------------------------------- cluster client, pkg/kubernetes
\* Strings are sequences of byte values; Go compares them byte by byte.
Digit(d) == 48 + d

\* The decimal text of a version number, as the server reports Major and Minor.
RECURSIVE Itoa(_)
Itoa(n) == IF n < 10 THEN <<Digit(n)>> ELSE Append(Itoa(n \div 10), Digit(n % 10))

\* semver := fmt.Sprintf("v%s.%s", version.Major, version.Minor)
Semver(major, minor) == <<118>> \o Itoa(major) \o <<46>> \o Itoa(minor)

\* The literal "v1.23"
MinSemver == <<118, 49, 46, 50, 51>>

\* Go's a < b on strings: lexicographic order on the bytes.
StrLess(a, b) ==
    \/ /\ Len(a) < Len(b)
       /\ \A i \in 1..Len(a) : a[i] = b[i]
    \/ \E i \in 1..Len(a) :
          /\ i <= Len(b)
          /\ a[i] < b[i]
          /\ \A j \in 1..(i - 1) : a[j] = b[j]

\* checkK8sVersion(config): the error it returns, if any.
checkK8sVersion(discoveryErr, versionErr, major, minor) ==
    IF discoveryErr THEN Err("DiscoveryClient", {})
    ELSE IF versionErr THEN Err("ServerVersion", {})
    ELSE IF StrLess(Semver(major, minor), MinSemver) THEN Err("UnsupportedVersion", {})
    ELSE NoErr

NoBoot ==
    [called |-> FALSE, major |-> 0, minor |-> 0, reachable |-> FALSE,
     config |-> [QPS |-> 0, Burst |-> 0], ctx |-> "",
     ret |-> [instance |-> FALSE, err |-> NoErr]]

\* ---------------------------------------------------------------- actions
NewPodDisruptorStep(sel, opts, listOut, accepted, running) ==
    LET rejected == SelectorRejected(sel)
        namespace == LocalNamespace(sel)
        listErr == IF rejected THEN NoErr ELSE listOut.err
        built == ~rejected /\ listErr = NoErr
        ctrl0 == NewAgentController(namespace, namespace,
                                    ControllerTargets(listOut.pods),
                                    ControllerTimeout(opts))
        inj == InjectDisruptorAgent(ctrl0, accepted, running)
        injErr == IF built THEN inj.err ELSE NoErr
        ret == NewPodDisruptorRet(rejected, listErr, injErr)
    IN  /\ argSelector' = sel
        /\ argOptions' = opts
        /\ selector' = IF rejected THEN sel ELSE DefaultedSelector(sel)
        /\ helperCalls' = IF rejected THEN helperCalls ELSE Append(helperCalls, namespace)
        /\ listCalls' = IF rejected THEN listCalls ELSE Append(listCalls, PodFilter(sel))
        /\ listRet' = IF rejected THEN listRet ELSE listOut
        /\ controller' = IF built THEN inj.ctrl ELSE controller
        /\ injectCalls' = IF built THEN injectCalls + 1 ELSE injectCalls
        /\ injectRet' = injErr
        /\ cluster' = IF built
                      THEN [accepted |-> accepted \cap Range(ctrl0.targets),
                            running |-> running \cap Range(ctrl0.targets)]
                      ELSE cluster
        /\ newRet' = ret
        /\ pc' = IF ret.instance THEN "Ready" ELSE "Failed"
        /\ UNCHANGED <<lastCall, boot>>

\* NewPodDisruptor(ctx, k8s, selector, options)
NewPodDisruptor ==
    /\ pc = "Uninitialized"
    /\ \E sel \in PodSelector, opts \in PodDisruptorOptions, listOut \in ListOutcomes :
         \E accepted \in SUBSET Pods :
           \E running \in SUBSET accepted :
             NewPodDisruptorStep(sel, opts, listOut, accepted, running)

facadeFrame ==
    <<pc, argSelector, argOptions, selector, helperCalls, listCalls, listRet,
      controller, injectCalls, injectRet, cluster, newRet>>

\* Faulty variant: Targets answers without asking the controller.
podDisruptorTargetsEmpty(ctrl) == [targets |-> <<>>, err |-> NoErr]

\* func (d *podDisruptor) Targets() ([]string, error)
podDisruptorTargets(ctrl) == AgentControllerTargets(ctrl)

Targets ==
    /\ pc = "Ready"
    /\ LET r == podDisruptorTargets(controller)
       IN  lastCall' = [NoCall EXCEPT !.op = "Targets", !.targets = r.targets, !.err = r.err]
    /\ UNCHANGED <<facadeFrame, boot>>

\* Faulty variant: the error of ExecCommand is swallowed.
FaultsRetSwallowed(execErr) == NoErr

\* err := d.controller.ExecCommand(cmd); return err
FaultsRet(execErr) == execErr

InjectFaults(op, cmd, duration, errorRate, failing) ==
    LET r == ExecCommand(controller, cmd, failing)
    IN  /\ lastCall' = [op |-> op, duration |-> duration, errorRate |-> errorRate,
                        cmd |-> cmd, execCmds |-> <<cmd>>, execOn |-> r.execOn,
                        execFailed |-> r.execFailed, targets |-> <<>>,
                        err |-> FaultsRet(r.err)]
        /\ UNCHANGED <<facadeFrame, boot>>

\* func (d *podDisruptor) InjectHTTPFaults(fault, duration, options) error
InjectHTTPFaults ==
    /\ pc = "Ready"
    /\ \E f \in FaultSpecs, failing \in SUBSET Range(controller.targets) :
         InjectFaults("InjectHTTPFaults", buildHTTPFaultCmd(f.duration, f.errorRate),
                      f.duration, f.errorRate, failing)

\* func (d *podDisruptor) InjectGrpcFaults(fault, duration, options) error
InjectGrpcFaults ==
    /\ pc = "Ready"
    /\ \E f \in FaultSpecs, failing \in SUBSET Range(controller.targets) :
         InjectFaults("InjectGrpcFaults", buildGrpcFaultCmd(f.duration, f.errorRate),
                      f.duration, f.errorRate, failing)

vars ==
    <<pc, argSelector, argOptions, selector, helperCalls, listCalls, listRet,
      controller, injectCalls, injectRet, cluster, newRet, lastCall, boot>>

Init ==
    /\ pc = "Uninitialized"
    /\ argSelector = NoSelector
    /\ argOptions = NoOptions
    /\ selector = NoSelector
    /\ helperCalls = <<>>
    /\ listCalls = <<>>
    /\ listRet = NoListRet
    /\ controller = NoController
    /\ injectCalls = 0
    /\ injectRet = NoErr
    /\ cluster = NoCluster
    /\ newRet = NoRet
    /\ lastCall = NoCall
    /\ boot = NoBoot

Next ==
    \/ NewPodDisruptor
    \/ Targets
    \/ InjectHTTPFaults
    \/ InjectGrpcFaults

Spec == Init /\ [][Next]_vars

\* newWithContext(ctx, config): builds the client, checks the server version
\* and returns the Kubernetes instance, or nil and the first error.
newWithContextStep(ctxNil, clientErr, discoveryErr, versionErr, major, minor) ==
    LET err == IF clientErr THEN Err("NewForConfig", {})
               ELSE checkK8sVersion(discoveryErr, versionErr, major, minor)
    IN  boot' = [called |-> TRUE, major |-> major, minor |-> minor,
                 reachable |-> ~clientErr /\ ~discoveryErr /\ ~versionErr,
                 config |-> [QPS |-> QPS, Burst |-> Burst],
                 ctx |-> IF err # NoErr THEN ""
                         ELSE IF ctxNil THEN "TODO" ELSE "ctx",
                 ret |-> [instance |-> err = NoErr, err |-> err]]

\* One client is built per behaviour.
newWithContext ==
    /\ ~boot.called
    /\ \E ctxNil, clientErr, discoveryErr, versionErr \in BOOLEAN :
         \E major \in 0..MaxMajor, minor \in 0..MaxMinor :
           newWithContextStep(ctxNil, clientErr, discoveryErr, versionErr, major, minor)
    /\ UNCHANGED <<facadeFrame, lastCall>>

NextK8s == newWithContext

SpecK8s == Init /\ [][NextK8s]_vars

\* ------------------------------------------------------------ properties
Called == pc # "Uninitialized"
FaultOps == {"InjectHTTPFaults", "InjectGrpcFaults"}
TargetSet == Range(controller.targets)

\* A selector with no namespace and no label in Select or in Exclude, the
\* label maps being absent or present with zero entries.
FullyEmpty(sel) ==
    /\ sel.Namespace = ""
    /\ sel.Select.Labels.entries = {}
    /\ sel.Exclude.Labels.entries = {}

\* C1: for every selector with an empty Namespace and no labels in Select and
\* Exclude (maps absent or empty), NewPodDisruptor returns an error and no
\* instance, without calling helper.List or InjectDisruptorAgent.
C1_EmptySelectorRejected ==
    (Called /\ FullyEmpty(argSelector)) =>
        /\ ~newRet.instance
        /\ newRet.err # NoErr
        /\ listCalls = <<>>
        /\ injectCalls = 0

\* C2: when the selector passes validation with an empty Namespace, the pod
\* helper is obtained for, and the controller is given, the namespace
\* "default", never the empty string.
C2_DefaultNamespaceUsed ==
    (Called /\ ~SelectorRejected(argSelector) /\ argSelector.Namespace = "") =>
        /\ helperCalls = <<NamespaceDefault>>
        /\ controller.created => controller.namespace = NamespaceDefault

\* Duration strictly positive, error rate within [0, 1] (in hundredths).
ValidFaultSpec(duration, errorRate) ==
    duration > 0 /\ errorRate >= 0 /\ errorRate <= 100

\* C3: for every fault spec with duration <= 0 or error rate outside [0,1],
\* InjectHTTPFaults / InjectGrpcFaults returns an InvalidFaultSpec error and
\* ExecCommand is not invoked for that call.
C3_InvalidFaultSpecRejected ==
    (lastCall.op \in FaultOps /\ ~ValidFaultSpec(lastCall.duration, lastCall.errorRate)) =>
        /\ lastCall.err.kind = "InvalidFaultSpec"
        /\ lastCall.execCmds = <<>>

\* C4: NewPodDisruptor returns an instance iff selector validation passed,
\* helper.List returned no error and InjectDisruptorAgent returned no error;
\* otherwise it returns nil with the error of the failing stage, and after a
\* List failure InjectDisruptorAgent is never called.
C4_AllOrNothing ==
    Called =>
        /\ newRet.instance <=>
              /\ ~SelectorRejected(argSelector)
              /\ listCalls # <<>> /\ listRet.err = NoErr
              /\ injectCalls = 1 /\ injectRet = NoErr
        /\ newRet.instance <=> newRet.err = NoErr
        /\ newRet.instance <=> pc = "Ready"
        /\ (listCalls # <<>> /\ listRet.err # NoErr) =>
              (injectCalls = 0 /\ newRet.err = listRet.err)
        /\ injectRet # NoErr => newRet.err = injectRet
        /\ SelectorRejected(argSelector) => (listCalls = <<>> /\ injectCalls = 0)

\* Injection failed on one of two targets and no instance was returned.
C4_Witness ==
    /\ pc = "Failed"
    /\ Len(controller.targets) = 2
    /\ injectRet.kind = "InjectionFailed"
    /\ Cardinality(injectRet.targets) = 1
    /\ ~newRet.instance

\* C5: the version check rejects every server version numerically below 1.23
\* and accepts every version numerically at or above 1.23 (1.9 is rejected,
\* 1.100 is accepted); on rejection no Kubernetes instance is returned.
C5_VersionCheckNumeric ==
    (boot.called /\ boot.reachable) =>
        (boot.ret.instance <=>
            (boot.major > 1 \/ (boot.major = 1 /\ boot.minor >= 23)))

C7_FaultsReturnExecOutcome ==
    lastCall.op \in FaultOps =>
        /\ lastCall.execCmds = <<lastCall.cmd>>
        /\ lastCall.cmd.duration = lastCall.duration
        /\ lastCall.cmd.errorRate = lastCall.errorRate
        /\ lastCall.cmd.protocol =
              (IF lastCall.op = "InjectHTTPFaults" THEN "http" ELSE "grpc")
        /\ lastCall.execOn = TargetSet
        /\ lastCall.err = NoErr <=> lastCall.execFailed = {}
        /\ lastCall.execFailed # {} =>
              lastCall.err = Err("ExecFailed", lastCall.execFailed)

\* Exec failed on one of two targets and succeeded on the other.
C7_Witness ==
    /\ lastCall.op = "InjectHTTPFaults"
    /\ Cardinality(lastCall.execOn) = 2
    /\ Cardinality(lastCall.execFailed) = 1
    /\ lastCall.err.kind = "ExecFailed"

\* C8: the caller's InjectTimeout reaches the controller unchanged; with a
\* negative value injection succeeds as soon as the cluster accepts the
\* mutation, whether or not the agent runs; with zero or a positive value
\* success is not returned before every agent is observed running.
C8_InjectTimeoutWaitMode ==
    (Called /\ controller.created) =>
        /\ controller.timeout = argOptions.InjectTimeout
        /\ argOptions.InjectTimeout < 0 =>
              (injectRet = NoErr <=> TargetSet \subseteq cluster.accepted)
        /\ (argOptions.InjectTimeout >= 0 /\ newRet.instance) =>
              TargetSet \subseteq cluster.running

\* Construction completed under a negative timeout with an agent not running.
C8_Witness ==
    /\ newRet.instance
    /\ argOptions.InjectTimeout < 0
    /\ TargetSet # {}
    /\ ~(TargetSet \subseteq cluster.running)

\* C9: InjectDisruptorAgent is invoked once per controller, by
\* NewPodDisruptor and by no method of the disruptor, and ExecCommand is only
\* ever issued on a controller whose injection returned without error.
C9_InjectOnceBeforeExec ==
    /\ injectCalls <= 1
    /\ controller.created <=> injectCalls = 1
    /\ pc = "Ready" => (injectCalls = 1 /\ injectRet = NoErr)
    /\ lastCall.op # "none" => pc = "Ready"
    /\ lastCall.execCmds # <<>> =>
          /\ injectCalls = 1
          /\ injectRet = NoErr
          /\ \A i \in DOMAIN controller.targets : controller.injState[i] = "Injected"

\* A fault command was executed on a controller injected once.
C9_Witness ==
    /\ lastCall.op = "InjectGrpcFaults"
    /\ lastCall.execCmds # <<>>
    /\ lastCall.execOn # {}
    /\ injectCalls = 1

\* C10: helper.List is given the selector's Select and Exclude label maps
\* unmodified, the controller is given exactly the pod names List returned,
\* in the same order, and an empty result is passed on as an empty target
\* list without being a construction error by itself.
C10_FilterAndTargetsPassedThrough ==
    /\ listCalls # <<>> =>
          listCalls = <<[Select |-> argSelector.Select.Labels,
                         Exclude |-> argSelector.Exclude.Labels]>>
    /\ controller.created => controller.targets = listRet.pods
    /\ (listCalls # <<>> /\ listRet.err = NoErr) => controller.created
    /\ (listCalls # <<>> /\ listRet.err = NoErr /\ listRet.pods = <<>>) =>
          /\ controller.targets = <<>>
          /\ injectCalls = 1
          /\ newRet.err = injectRet

\* List yielded two pods in an order of its own, under distinct label maps.
C10_Witness ==
    /\ controller.created
    /\ listRet.pods = <<"checkout-1", "checkout-0">>
    /\ controller.targets = <<"checkout-1", "checkout-0">>
    /\ listCalls[1].Select # listCalls[1].Exclude
    /\ listCalls[1].Select.entries # {}

====
